---- MODULE Spec2Model ----
(***************************************************************************)
(* Emirates card processor (src/main.py): a Streamlit script.  Every       *)
(* script run executes the module level (get_secrets, the two boto3        *)
(* clients) and then main(), which uploads the two images under the fixed  *)
(* keys cards/front.jpg and cards/back.jpg, runs OCR and the question      *)
(* answering chain on each side, parses the two answers with json.loads    *)
(* and renders them.  Each browser session runs the script in its own      *)
(* thread; the bucket is the one thing the sessions share.                 *)
(***************************************************************************)
EXTENDS Integers, Sequences, FiniteSets, TLC

\* ------------------------------------------------------------------ bounds
\* Script runs (presses / reruns) one session may make.
MaxRuns == 2

\* ------------------------------------------------------------------ values
Sessions == {"s1", "s2"}
Sides == {"front", "back"}

\* src/main.py:15-22
required_secrets ==
    << "OPENAI_API_KEY", "LLAMA_CLOUD_API_KEY", "AWS_ACCESS_KEY",
       "AWS_SECRET_KEY", "AWS_BUCKET_NAME", "AWS_REGION" >>

RequiredSet == {required_secrets[i] : i \in 1..Len(required_secrets)}

\* A setting of the secrets file that the program does not ask for.
ExtraSecret == "EXTRA_SETTING"

\* The value the secrets file holds for a setting it has.
SecretValue(k) ==
    CASE k = "OPENAI_API_KEY" -> "sk-openai"
      [] k = "LLAMA_CLOUD_API_KEY" -> "llx-llama"
      [] k = "AWS_ACCESS_KEY" -> "AKIA"
      [] k = "AWS_SECRET_KEY" -> "aws-secret"
      [] k = "AWS_BUCKET_NAME" -> "card-bucket"
      [] k = "AWS_REGION" -> "me-central-1"
      [] OTHER -> "other"

\* Python's None for each type of local (records keep TLC's comparisons typed).
NoFile == [owner |-> "none", side |-> "none"]
NoPath == [bucket |-> "", key |-> ""]
NoText == [of |-> NoFile]
NoResult == [set |-> FALSE, toks |-> << >>]
NoData == [kind |-> "unset", s |-> "", elems |-> << >>]
NoExc == [type |-> "none", args |-> << >>]
NoClient == [service |-> "none", key |-> "", secret |-> "", region |-> ""]

\* The picture a session's user holds of each side of their card.
Image(s, side) == [owner |-> s, side |-> side]

\* ------------------------------------------------------------------- JSON
\* An answer of the language model is a string; it is modelled as the
\* sequence of its lexical tokens, and json.loads as a parser of them.
P(c) == [t |-> "punct", v |-> c]
S(c) == [t |-> "str", v |-> c]
N(c) == [t |-> "num", v |-> c]
L(c) == [t |-> "lit", v |-> c]
W(c) == [t |-> "word", v |-> c]

JStr(s) == [kind |-> "str", s |-> s, elems |-> << >>]
JNum(s) == [kind |-> "num", s |-> s, elems |-> << >>]
JLit(s) == [kind |-> "lit", s |-> s, elems |-> << >>]
JArray(es) == [kind |-> "array", s |-> "", elems |-> es]
JObject(items) == [kind |-> "dict", s |-> "", elems |-> items]

\* The constants json.loads accepts: JSON's three and Python's non-standard three.
JsonConstants == {"true", "false", "null", "NaN", "Infinity", "-Infinity"}

ParseFail == [ok |-> FALSE, val |-> NoData, rest |-> << >>]
ParseOk(v, rest) == [ok |-> TRUE, val |-> v, rest |-> rest]

\* dict[k] = v: a key already present keeps its place and takes the new value.
DictSet(items, k, v) ==
    IF \E i \in 1..Len(items) : items[i].k = k
    THEN [i \in 1..Len(items) |-> IF items[i].k = k THEN [k |-> k, v |-> v] ELSE items[i]]
    ELSE Append(items, [k |-> k, v |-> v])

IsPunct(toks, c) == toks # << >> /\ Head(toks) = P(c)

RECURSIVE ParseValue(_), ParseElems(_, _), ParseMembers(_, _)

ParseValue(toks) ==
    IF toks = << >> THEN ParseFail
    ELSE LET h == Head(toks)
             r == Tail(toks)
         IN  CASE h.t = "str" -> ParseOk(JStr(h.v), r)
               [] h.t = "num" -> ParseOk(JNum(h.v), r)
               [] h.t = "lit" /\ h.v \in JsonConstants -> ParseOk(JLit(h.v), r)
               [] h = P("[") ->
                    IF IsPunct(r, "]") THEN ParseOk(JArray(<< >>), Tail(r))
                    ELSE ParseElems(r, << >>)
               [] h = P("{") ->
                    IF IsPunct(r, "}") THEN ParseOk(JObject(<< >>), Tail(r))
                    ELSE ParseMembers(r, << >>)
               [] OTHER -> ParseFail

ParseElems(toks, acc) ==
    LET e == ParseValue(toks)
    IN  IF ~e.ok THEN ParseFail
        ELSE IF IsPunct(e.rest, ",") THEN ParseElems(Tail(e.rest), Append(acc, e.val))
        ELSE IF IsPunct(e.rest, "]") THEN ParseOk(JArray(Append(acc, e.val)), Tail(e.rest))
        ELSE ParseFail

ParseMembers(toks, acc) ==
    IF Len(toks) < 2 \/ Head(toks).t # "str" \/ toks[2] # P(":") THEN ParseFail
    ELSE LET e == ParseValue(SubSeq(toks, 3, Len(toks)))
             items == DictSet(acc, Head(toks).v, e.val)
         IN  IF ~e.ok THEN ParseFail
             ELSE IF IsPunct(e.rest, ",") THEN ParseMembers(Tail(e.rest), items)
             ELSE IF IsPunct(e.rest, "}") THEN ParseOk(JObject(items), Tail(e.rest))
             ELSE ParseFail

\* Variant: a decoder that stops at the end of the first value (raw_decode).
json_loads_raw(toks) ==
    LET r == ParseValue(toks)
    IN  IF r.ok THEN [ok |-> TRUE, val |-> r.val]
        ELSE [ok |-> FALSE, val |-> NoData]

\* json.loads(s): the parsed value, or JSONDecodeError (also on trailing text).
json_loads(toks) ==
    LET r == ParseValue(toks)
    IN  IF r.ok /\ r.rest = << >> THEN [ok |-> TRUE, val |-> r.val]
        ELSE [ok |-> FALSE, val |-> NoData]

\* Variant: a method no Python 3 value has (iteritems).
HasItems_py2(v) == FALSE

\* hasattr(v, "items"): only a dict has .items().
HasItems(v) == v.kind = "dict"

\* str(value) as the f-string of a field formats it, as a sequence of text pieces;
\* inside a container Python writes the repr, which quotes strings.
RECURSIVE Repr(_), ReprSeq(_, _)

PyLit(s) ==
    CASE s = "true" -> "True" [] s = "false" -> "False" [] s = "null" -> "None"
      [] s = "NaN" -> "nan" [] s = "Infinity" -> "inf" [] s = "-Infinity" -> "-inf"
      [] OTHER -> s

Repr(v) ==
    CASE v.kind = "str" -> << "'", v.s, "'" >>
      [] v.kind = "num" -> << v.s >>
      [] v.kind = "lit" -> << PyLit(v.s) >>
      [] v.kind = "array" -> << "[" >> \o ReprSeq(v.elems, FALSE) \o << "]" >>
      [] v.kind = "dict" -> << "{" >> \o ReprSeq(v.elems, TRUE) \o << "}" >>
      [] OTHER -> << >>

ReprSeq(es, keyed) ==
    IF es = << >> THEN << >>
    ELSE (IF keyed THEN << "'", Head(es).k, "'", ": " >> \o Repr(Head(es).v)
          ELSE Repr(Head(es)))
         \o (IF Len(es) > 1 THEN << ", " >> ELSE << >>)
         \o ReprSeq(Tail(es), keyed)

Str(v) == IF v.kind = "str" THEN << v.s >> ELSE Repr(v)

\* The answers the hosted model may give (its output is not under the program's control).
AnsObject == << P("{"), S("Name"), P(":"), S("Ali"), P(","), S("Card ID"), P(":"), N("784"), P("}") >>
AnsBackObject == << P("{"), S("Occupation"), P(":"), S("Engineer"), P("}") >>
AnsDupKey == << P("{"), S("Name"), P(":"), S("A"), P(","), S("Name"), P(":"), S("1"), P("}") >>
AnsEmptyObject == << P("{"), P("}") >>
AnsArray == << P("["), S("Ali"), P("]") >>
AnsNaN == << L("NaN") >>
AnsProse == << W("Name"), P(":"), W("Ali") >>
AnsTruncated == << P("{"), S("Name"), P(":"), S("Ali") >>
AnsTrailing == << P("{"), S("Name"), P(":"), S("Ali"), P("}"), W("Done") >>
AnsEmpty == << >>

Answers ==
    { AnsObject, AnsBackObject, AnsDupKey, AnsEmptyObject, AnsArray, AnsNaN,
      AnsProse, AnsTruncated, AnsTrailing, AnsEmpty }

\* The two answers that matter when two sessions interleave.
FewAnswers == { AnsObject, AnsProse }

\* --------------------------------------------------------------- messages
WarnBoth == "Please upload both front and back images"
ErrUpload == "Error uploading files"
ErrCard == "Error processing the card information"
ErrDuring == "Error during processing: "
HeadingOf(side) == IF side = "front" THEN "Front Side Details" ELSE "Back Side Details"

Element(type, side, label, value) ==
    [type |-> type, side |-> side, label |-> label, value |-> value]

Exc(type, args) == [type |-> type, args |-> args]

Call(op, side, ok, arg) == [op |-> op, side |-> side, ok |-> ok, arg |-> arg]

\* f"{folder}/{filename}" with the default folder, and the locator built on it.
S3Key(filename) == << "cards", filename >>
S3Keys == { S3Key("front.jpg"), S3Key("back.jpg") }
S3Uri(bucket, key) == [bucket |-> bucket, key |-> key]
FileName(side) == IF side = "front" THEN "front.jpg" ELSE "back.jpg"

\* What the object store can answer to one put.
UploadOutcomes == { "ok", "NoCredentialsError", "ClientError" }

\* ------------------------------------------------------------------ state
\* st_secrets: the secrets file (setting -> value), fixed while the process runs
\* s3:         the bucket, object key -> stored image
\* script:     per session, the script run in progress: its position, the module
\*             globals and main's locals, the page rendered so far, the calls made
\*             and the exception that left the script, if any
VARIABLES st_secrets, s3, script

vars == << st_secrets, s3, script >>

FreshRun(runs) ==
    [ pc |-> "get_secrets", runs |-> runs,
      secrets |-> << >>, environ |-> << >>,
      s3_client |-> NoClient, textract_client |-> NoClient,
      front_file |-> NoFile, back_file |-> NoFile, process_button |-> FALSE,
      front_s3_path |-> NoPath, back_s3_path |-> NoPath,
      side |-> "front", texts |-> << >>, docsearch |-> << >>, docs |-> << >>,
      front_text |-> NoText, back_text |-> NoText,
      front_result |-> NoResult, back_result |-> NoResult,
      front_data |-> NoData, back_data |-> NoData, idx |-> 0,
      page |-> << >>, calls |-> << >>, escaped |-> NoExc ]

Init ==
    /\ \E present \in SUBSET (RequiredSet \cup {ExtraSecret}) :
          st_secrets = [k \in present |-> SecretValue(k)]
    /\ s3 = [k \in S3Keys |-> NoFile]
    /\ script = [s \in Sessions |-> [FreshRun(0) EXCEPT !.pc = "idle"]]

Set(s, r) == script' = [script EXCEPT ![s] = r]

\* An exception raised at module level or in main outside the try: it leaves the script.
Escapes(r, e) == [r EXCEPT !.pc = "done", !.escaped = e]

\* Variant: a handler per side, so that a front-side failure goes on to the back side.
ExceptException_per_side(r, e) ==
    [r EXCEPT !.pc = IF r.side = "front" /\ r.pc \in {"ocr", "split", "index", "search", "run"}
                     THEN "ocr" ELSE "done",
              !.side = IF r.side = "front" /\ r.pc \in {"ocr", "split", "index", "search", "run"}
                       THEN "back" ELSE @,
              !.page = Append(@, Element("error", "", ErrDuring, e.args))]

\* except Exception as e: st.error(f"Error during processing: {str(e)}")
ExceptException(r, e) ==
    [r EXCEPT !.pc = "done",
              !.page = Append(@, Element("error", "", ErrDuring, e.args))]

\* ------------------------------------------------------------ module level
\* The browser session (re)runs the script: a fresh module namespace.
Rerun(s) ==
    /\ script[s].pc \in {"idle", "done"}
    /\ script[s].runs < MaxRuns
    /\ Set(s, FreshRun(script[s].runs + 1))
    /\ UNCHANGED << st_secrets, s3 >>

\* [secret for secret in required_secrets if secret not in st.secrets]
missing_secrets(secs) ==
    SelectSeq(required_secrets, LAMBDA k : k \notin DOMAIN secs)

\* Variant: the error names the first missing setting only.
get_secrets_first(secs) ==
    IF missing_secrets(secs) # << >>
    THEN [raised |-> TRUE, exc |-> Exc("ValueError", << Head(missing_secrets(secs)) >>), value |-> << >>]
    ELSE [raised |-> FALSE, exc |-> NoExc, value |-> [k \in RequiredSet |-> secs[k]]]

\* get_secrets(): the six settings, or ValueError naming the missing ones.
get_secrets(secs) ==
    IF missing_secrets(secs) # << >>
    THEN [raised |-> TRUE, exc |-> Exc("ValueError", missing_secrets(secs)), value |-> << >>]
    ELSE [raised |-> FALSE, exc |-> NoExc, value |-> [k \in RequiredSet |-> secs[k]]]

\* secrets = get_secrets()
GetSecrets(s) ==
    LET r == script[s]
        g == get_secrets(st_secrets)
    IN  /\ r.pc = "get_secrets"
        /\ IF g.raised THEN Set(s, Escapes(r, g.exc))
           ELSE Set(s, [r EXCEPT !.pc = "environ", !.secrets = g.value])
        /\ UNCHANGED << st_secrets, s3 >>

\* os.environ[...] = secrets[...]
SetEnviron(s) ==
    LET r == script[s]
    IN  /\ r.pc = "environ"
        /\ Set(s, [r EXCEPT !.pc = "s3_client",
                            !.environ = [k \in {"OPENAI_API_KEY", "Llama_Cloud_API_Key"} |->
                                           IF k = "OPENAI_API_KEY" THEN r.secrets["OPENAI_API_KEY"]
                                           ELSE r.secrets["LLAMA_CLOUD_API_KEY"]]])
        /\ UNCHANGED << st_secrets, s3 >>

boto3_client(service, secs) ==
    [service |-> service, key |-> secs["AWS_ACCESS_KEY"],
     secret |-> secs["AWS_SECRET_KEY"], region |-> secs["AWS_REGION"]]

\* s3_client = boto3.client('s3', ...)
CreateS3Client(s) ==
    LET r == script[s]
    IN  /\ r.pc = "s3_client"
        /\ Set(s, [r EXCEPT !.pc = "textract_client", !.s3_client = boto3_client("s3", r.secrets)])
        /\ UNCHANGED << st_secrets, s3 >>

\* textract_client = boto3.client('textract', ...)
CreateTextractClient(s) ==
    LET r == script[s]
    IN  /\ r.pc = "textract_client"
        /\ Set(s, [r EXCEPT !.pc = "main", !.textract_client = boto3_client("textract", r.secrets)])
        /\ UNCHANGED << st_secrets, s3 >>

\* ------------------------------------------------------------------- main
\* Variant: `or` written for `and`.
both_files_or(ff, bf) == ff # NoFile \/ bf # NoFile

\* if front_file and back_file:
both_files(ff, bf) == ff # NoFile /\ bf # NoFile

\* Variant: the locators are not tested before OCR.
both_paths_unchecked(fp, bp) == TRUE

\* if front_s3_path and back_s3_path:
both_paths(fp, bp) == fp # NoPath /\ bp # NoPath

\* The widgets: the two uploaders and the button return what the user did.
\* if process_button: if front_file and back_file: ... else: st.warning(...)
MainWidgets(s) ==
    LET r == script[s]
    IN  /\ r.pc = "main"
        /\ \E ff \in {NoFile, Image(s, "front")}, bf \in {NoFile, Image(s, "back")},
              pb \in BOOLEAN :
              LET w == [r EXCEPT !.front_file = ff, !.back_file = bf, !.process_button = pb]
              IN  IF ~pb THEN Set(s, [w EXCEPT !.pc = "done"])
                  ELSE IF both_files(ff, bf)
                       THEN Set(s, [w EXCEPT !.pc = "upload", !.side = "front"])
                       ELSE Set(s, [w EXCEPT !.pc = "done",
                                             !.page = Append(@, Element("warning", "", WarnBoth, << >>))])
        /\ UNCHANGED << st_secrets, s3 >>

\* upload_to_s3(file, filename): the locator, None on NoCredentialsError; any
\* other exception of the client is not caught here.
upload_to_s3(bucket, filename, outcome) ==
    CASE outcome = "ok" -> [raised |-> FALSE, exc |-> NoExc, value |-> S3Uri(bucket, S3Key(filename))]
      [] outcome = "NoCredentialsError" -> [raised |-> FALSE, exc |-> NoExc, value |-> NoPath]
      [] OTHER -> [raised |-> TRUE, exc |-> Exc(outcome, << outcome >>), value |-> NoPath]

\* front_s3_path = upload_to_s3(front_file, "front.jpg"), then the same for back
Upload(s) ==
    LET r == script[s]
        file == IF r.side = "front" THEN r.front_file ELSE r.back_file
    IN  /\ r.pc = "upload"
        /\ \E outcome \in UploadOutcomes :
              LET u == upload_to_s3(r.secrets["AWS_BUCKET_NAME"], FileName(r.side), outcome)
                  c == [r EXCEPT !.calls = Append(@, Call("upload_to_s3", r.side, outcome = "ok", file))]
              IN  /\ s3' = IF outcome = "ok"
                           THEN [s3 EXCEPT ![S3Key(FileName(r.side))] = file]
                           ELSE s3
                  /\ IF u.raised THEN Set(s, Escapes(c, u.exc))
                     ELSE IF r.side = "front"
                          THEN Set(s, [c EXCEPT !.front_s3_path = u.value, !.side = "back"])
                          ELSE Set(s, [c EXCEPT !.back_s3_path = u.value, !.pc = "check_paths"])
        /\ UNCHANGED st_secrets

\* if front_s3_path and back_s3_path: ... else: st.error("Error uploading files")
CheckPaths(s) ==
    LET r == script[s]
    IN  /\ r.pc = "check_paths"
        /\ IF both_paths(r.front_s3_path, r.back_s3_path)
           THEN Set(s, [r EXCEPT !.pc = "ocr", !.side = "front"])
           ELSE Set(s, [r EXCEPT !.pc = "done",
                                 !.page = Append(@, Element("error", "", ErrUpload, << >>))])
        /\ UNCHANGED << st_secrets, s3 >>

\* process_card_side(file_path): Textract reads the object the locator names now
\* and returns its text; it raises when the locator names no object.
Readable(bucket, file_path) ==
    file_path.key \in DOMAIN bucket /\ bucket[file_path.key] # NoFile

process_card_side(bucket, file_path) ==
    IF Readable(bucket, file_path) THEN [of |-> bucket[file_path.key]] ELSE NoText

\* front_text = process_card_side(front_s3_path), then the same for back
ProcessCardSide(s) ==
    LET r == script[s]
        path == IF r.side = "front" THEN r.front_s3_path ELSE r.back_s3_path
        text == process_card_side(s3, path)
    IN  /\ r.pc = "ocr"
        /\ \/ /\ Readable(s3, path)
              /\ Set(s, [r EXCEPT !.pc = "split",
                                 !.front_text = IF r.side = "front" THEN text ELSE @,
                                 !.back_text = IF r.side = "back" THEN text ELSE @,
                                 !.calls = Append(@, Call("process_card_side", r.side, TRUE, text.of))])
           \/ Set(s, ExceptException(
                        [r EXCEPT !.calls = Append(@, Call("process_card_side", r.side, FALSE, NoFile))],
                        Exc("TextractError", << "OcrFailure" >>)))
        /\ UNCHANGED << st_secrets, s3 >>

\* texts = text_splitter.split_text(text)
split_text(text) == << [of |-> text.of, seq |-> 1] >>

SplitText(s) ==
    LET r == script[s]
        text == IF r.side = "front" THEN r.front_text ELSE r.back_text
    IN  /\ r.pc = "split"
        /\ Set(s, [r EXCEPT !.pc = "index", !.texts = split_text(text),
                            !.calls = Append(@, Call("split_text", r.side, TRUE, NoFile))])
        /\ UNCHANGED << st_secrets, s3 >>

\* docsearch = FAISS.from_texts(texts, embeddings): calls the embedding service
FromTexts(s) ==
    LET r == script[s]
    IN  /\ r.pc = "index"
        /\ \/ Set(s, [r EXCEPT !.pc = "search", !.docsearch = r.texts,
                               !.calls = Append(@, Call("from_texts", r.side, TRUE, NoFile))])
           \/ Set(s, ExceptException(
                        [r EXCEPT !.calls = Append(@, Call("from_texts", r.side, FALSE, NoFile))],
                        Exc("APIConnectionError", << "ServiceUnavailable" >>)))
        /\ UNCHANGED << st_secrets, s3 >>

\* docs = docsearch.similarity_search(query): embeds the query
SimilaritySearch(s) ==
    LET r == script[s]
    IN  /\ r.pc = "search"
        /\ \/ Set(s, [r EXCEPT !.pc = "run", !.docs = r.docsearch,
                               !.calls = Append(@, Call("similarity_search", r.side, TRUE, NoFile))])
           \/ Set(s, ExceptException(
                        [r EXCEPT !.calls = Append(@, Call("similarity_search", r.side, FALSE, NoFile))],
                        Exc("APIConnectionError", << "ServiceUnavailable" >>)))
        /\ UNCHANGED << st_secrets, s3 >>

\* return chain.run(input_documents=docs, question=query): the model's answer
ChainRun(s, answers) ==
    LET r == script[s]
    IN  /\ r.pc = "run"
        /\ \/ \E a \in answers :
                LET c == [r EXCEPT !.calls = Append(@, Call("chain_run", r.side, TRUE, NoFile)),
                                   !.texts = << >>, !.docsearch = << >>, !.docs = << >>]
                    res == [set |-> TRUE, toks |-> a]
                IN  IF r.side = "front"
                    THEN Set(s, [c EXCEPT !.front_result = res, !.pc = "ocr", !.side = "back"])
                    ELSE Set(s, [c EXCEPT !.back_result = res, !.pc = "loads", !.side = "front"])
           \/ Set(s, ExceptException(
                        [r EXCEPT !.calls = Append(@, Call("chain_run", r.side, FALSE, NoFile))],
                        Exc("RateLimitError", << "RateLimited" >>)))
        /\ UNCHANGED << st_secrets, s3 >>

\* front_data = json.loads(front_result); back_data = json.loads(back_result)
\* except json.JSONDecodeError: st.error("Error processing the card information")
JsonLoads(s) ==
    LET r == script[s]
        res == IF r.side = "front" THEN r.front_result ELSE r.back_result
        j == json_loads(res.toks)
        c == [r EXCEPT !.calls = Append(@, Call("json_loads", r.side, j.ok, NoFile))]
    IN  /\ r.pc = "loads"
        /\ IF ~j.ok
           THEN Set(s, [c EXCEPT !.pc = "done",
                                 !.page = Append(@, Element("error", "", ErrCard, << >>))])
           ELSE IF r.side = "front"
                THEN Set(s, [c EXCEPT !.front_data = j.val, !.side = "back"])
                ELSE Set(s, [c EXCEPT !.back_data = j.val, !.side = "front", !.pc = "heading"])
        /\ UNCHANGED << st_secrets, s3 >>

\* st.markdown("<h3 ...>Front Side Details</h3>"), then the same for back
RenderHeading(s) ==
    LET r == script[s]
    IN  /\ r.pc = "heading"
        /\ Set(s, [r EXCEPT !.pc = "items", !.idx = 1,
                            !.page = Append(@, Element("heading", r.side, HeadingOf(r.side), << >>))])
        /\ UNCHANGED << st_secrets, s3 >>

\* for key, value in front_data.items(): st.markdown(<the field>), and for back
RenderItems(s) ==
    LET r == script[s]
        data == IF r.side = "front" THEN r.front_data ELSE r.back_data
    IN  /\ r.pc = "items"
        /\ IF ~HasItems(data)
           THEN Set(s, ExceptException(r, Exc("AttributeError", << "object has no attribute 'items'" >>)))
           ELSE IF r.idx <= Len(data.elems)
                THEN Set(s, [r EXCEPT !.idx = @ + 1,
                                      !.page = Append(@, Element("field", r.side,
                                                   data.elems[r.idx].k, Str(data.elems[r.idx].v)))])
                ELSE IF r.side = "front"
                     THEN Set(s, [r EXCEPT !.pc = "heading", !.side = "back", !.idx = 0])
                     ELSE Set(s, [r EXCEPT !.pc = "done", !.idx = 0])
        /\ UNCHANGED << st_secrets, s3 >>

Step(s, answers) ==
    \/ Rerun(s)
    \/ GetSecrets(s)
    \/ SetEnviron(s)
    \/ CreateS3Client(s)
    \/ CreateTextractClient(s)
    \/ MainWidgets(s)
    \/ Upload(s)
    \/ CheckPaths(s)
    \/ ProcessCardSide(s)
    \/ SplitText(s)
    \/ FromTexts(s)
    \/ SimilaritySearch(s)
    \/ ChainRun(s, answers)
    \/ JsonLoads(s)
    \/ RenderHeading(s)
    \/ RenderItems(s)

\* One browser session.
Next == Step("s1", Answers)

Spec == Init /\ [][Next]_vars

\* Two browser sessions, their script runs interleaved by the server's threads.
NextConc == \E s \in Sessions : Step(s, FewAnswers)

SpecConc == Init /\ [][NextConc]_vars

\* ================================================================= claims
Run(s) == script[s]

CallsOf(r, op, side) ==
    {i \in DOMAIN r.calls : r.calls[i].op = op /\ r.calls[i].side = side}
OkCallsOf(r, op, side) == {i \in CallsOf(r, op, side) : r.calls[i].ok}
FailedCallsOf(r, op, side) == {i \in CallsOf(r, op, side) : ~r.calls[i].ok}
AnyCalls(r, op) == CallsOf(r, op, "front") \cup CallsOf(r, op, "back")

Messages(r) == SelectSeq(r.page, LAMBDA e : e.type \in {"warning", "error"})
FieldsOf(r, side) == SelectSeq(r.page, LAMBDA e : e.type = "field" /\ e.side = side)
AllFields(r) == SelectSeq(r.page, LAMBDA e : e.type = "field")

Warning == Element("warning", "", WarnBoth, << >>)
UploadError == Element("error", "", ErrUpload, << >>)
MalformedExtraction == Element("error", "", ErrCard, << >>)

PipelineOps == {"process_card_side", "split_text", "from_texts", "similarity_search", "chain_run"}

\* The answers of the model's repertoire that are not JSON texts, and those that are
\* JSON objects, told by what they are and not by the parser.
NotJson == { AnsProse, AnsTruncated, AnsTrailing, AnsEmpty }
JsonObjects == { AnsObject, AnsBackObject, AnsDupKey, AnsEmptyObject }

\* The fields a JSON object of the repertoire stands for: (label, text of the value).
ExpectedFields(a) ==
    CASE a = AnsObject -> << << "Name", << "Ali" >> >>, << "Card ID", << "784" >> >> >>
      [] a = AnsBackObject -> << << "Occupation", << "Engineer" >> >> >>
      [] a = AnsDupKey -> << << "Name", << "1" >> >> >>
      [] OTHER -> << >>

ShownFields(r, side) ==
    [i \in DOMAIN FieldsOf(r, side) |-> << FieldsOf(r, side)[i].label, FieldsOf(r, side)[i].value >>]

\* ---- C1
\* C1: when Process is pressed and a file is missing, the page shows the validation
\* warning and nothing else, and no call was made: no upload, no OCR, no
\* embedding or model call, no JSON parsing, and no exception leaves main.
C1_MissingFileOnlyWarns ==
    \A s \in Sessions :
        (Run(s).process_button /\ (Run(s).front_file = NoFile \/ Run(s).back_file = NoFile))
        => /\ Run(s).pc = "done"
           /\ Run(s).page = << Warning >>
           /\ Run(s).calls = << >>
           /\ Run(s).escaped = NoExc

C1_Witness ==
    \E s \in Sessions :
        /\ Run(s).process_button
        /\ Run(s).front_file = NoFile
        /\ Run(s).back_file # NoFile
        /\ Run(s).page = << Warning >>

\* ---- C2
\* C2 (as claimed): a request in which an upload failed, whatever the failure, ends
\* with exactly the 'Error uploading files' message, with no OCR or answering call
\* and no field displayed.
C2_AnyUploadFailureIsUploadError ==
    \A s \in Sessions :
        (Run(s).pc = "done" /\ \E side \in Sides : FailedCallsOf(Run(s), "upload_to_s3", side) # {})
        => /\ Run(s).page = << UploadError >>
           /\ Run(s).escaped = NoExc
           /\ \A op \in PipelineOps : AnyCalls(Run(s), op) = {}

\* ---- C3
\* C3: once both answers have been returned and both are JSON objects, no warning or
\* error is ever shown, and the finished request shows the front heading, the front
\* answer's key/value pairs, the back heading and the back answer's pairs, in that
\* order and nothing else.
C3_ScenarioADone ==
    \A s \in Sessions :
        LET r == Run(s)
        IN  (r.front_result.set /\ r.back_result.set
             /\ r.front_result.toks \in JsonObjects /\ r.back_result.toks \in JsonObjects)
            => /\ Messages(r) = << >>
               /\ r.escaped = NoExc
               /\ r.pc = "done" =>
                    /\ ShownFields(r, "front") = ExpectedFields(r.front_result.toks)
                    /\ ShownFields(r, "back") = ExpectedFields(r.back_result.toks)
                    /\ r.page = << Element("heading", "front", "Front Side Details", << >>) >>
                                \o FieldsOf(r, "front")
                                \o << Element("heading", "back", "Back Side Details", << >>) >>
                                \o FieldsOf(r, "back")

C3_Witness ==
    \E s \in Sessions :
        /\ Run(s).pc = "done"
        /\ Run(s).front_result = [set |-> TRUE, toks |-> AnsObject]
        /\ Run(s).back_result = [set |-> TRUE, toks |-> AnsBackObject]
        /\ Len(AllFields(Run(s))) = 3

\* ---- C4
\* C4 (as claimed): a finished request in which the model returned a non-JSON answer
\* for a side shows exactly the 'Error processing the card information' message.
C4_NonJsonAlwaysMalformed ==
    \A s \in Sessions :
        LET r == Run(s)
        IN  (r.pc = "done" /\ ((r.front_result.set /\ r.front_result.toks \in NotJson)
                               \/ (r.back_result.set /\ r.back_result.toks \in NotJson)))
            => r.page = << MalformedExtraction >> /\ r.escaped = NoExc

\* C4 (amended): a finished request in which both answering steps returned and at
\* least one answer is not a JSON text shows exactly the 'Error processing the card
\* information' message, and no exception leaves main.
C4_BothAnsweredNonJsonMalformed ==
    \A s \in Sessions :
        LET r == Run(s)
        IN  (r.pc = "done" /\ r.front_result.set /\ r.back_result.set
             /\ (r.front_result.toks \in NotJson \/ r.back_result.toks \in NotJson))
            => r.page = << MalformedExtraction >> /\ r.escaped = NoExc

C4_Witness ==
    \E s \in Sessions :
        /\ Run(s).pc = "done"
        /\ Run(s).front_result = [set |-> TRUE, toks |-> AnsObject]
        /\ Run(s).back_result = [set |-> TRUE, toks |-> AnsTrailing]
        /\ Run(s).page = << MalformedExtraction >>

\* ---- C5
\* C5 (as claimed): no failure of a step of a request leaves main as an exception;
\* the only exception that leaves the script is the startup's ValueError.
C5_NoRequestFailureEscapes ==
    \A s \in Sessions :
        Run(s).escaped # NoExc => Run(s).escaped.type = "ValueError" /\ Run(s).calls = << >>

\* ---- C6
\* C6: with a required setting absent, a started script run ends at get_secrets with a
\* ValueError naming exactly the absent required settings, with neither client
\* constructed, nothing rendered and no call made; with all six present, get_secrets
\* returns exactly the six settings with the file's values and no ValueError is raised.
C6_FailFastConfiguration ==
    \A s \in Sessions :
        LET r == Run(s)
            absent == RequiredSet \ DOMAIN st_secrets
        IN  /\ (absent # {} /\ r.pc \notin {"idle", "get_secrets"})
               => /\ r.pc = "done"
                  /\ r.escaped.type = "ValueError"
                  /\ {r.escaped.args[i] : i \in DOMAIN r.escaped.args} = absent
                  /\ r.s3_client = NoClient /\ r.textract_client = NoClient
                  /\ r.secrets = << >> /\ r.page = << >> /\ r.calls = << >>
            /\ (absent = {} /\ r.pc \notin {"idle", "get_secrets"})
               => /\ r.escaped.type # "ValueError"
                  /\ DOMAIN r.secrets = RequiredSet
                  /\ \A k \in RequiredSet : r.secrets[k] = st_secrets[k]

C6_Witness ==
    \E s \in Sessions :
        /\ Cardinality(RequiredSet \ DOMAIN st_secrets) >= 2
        /\ Run(s).escaped.type = "ValueError"
        /\ Len(Run(s).escaped.args) >= 2

\* ---- C7
\* C7: in the calls of one request, OCR of a side comes only after both uploads
\* returned a locator; chunking of a side only after that side's OCR succeeded;
\* indexing after chunking, retrieval after indexing, answering after retrieval; and
\* JSON parsing only after both sides' answering steps returned.
Before(r, i, op, side) == \E j \in OkCallsOf(r, op, side) : j < i

C7_StepOrder ==
    \A s \in Sessions :
        LET r == Run(s)
        IN  \A i \in DOMAIN r.calls :
                LET c == r.calls[i]
                IN  /\ c.op = "process_card_side" =>
                          /\ Before(r, i, "upload_to_s3", "front")
                          /\ Before(r, i, "upload_to_s3", "back")
                    /\ c.op = "split_text" => Before(r, i, "process_card_side", c.side)
                    /\ c.op = "from_texts" => Before(r, i, "split_text", c.side)
                    /\ c.op = "similarity_search" => Before(r, i, "from_texts", c.side)
                    /\ c.op = "chain_run" =>
                          /\ Before(r, i, "similarity_search", c.side)
                          /\ Before(r, i, "process_card_side", c.side)
                    /\ c.op = "json_loads" =>
                          /\ Before(r, i, "chain_run", "front")
                          /\ Before(r, i, "chain_run", "back")

C7_Witness ==
    \E s \in Sessions :
        /\ CallsOf(Run(s), "json_loads", "back") # {}
        /\ OkCallsOf(Run(s), "chain_run", "front") # {}

\* ---- C8
FrontFailed(r) ==
    \E op \in PipelineOps : FailedCallsOf(r, op, "front") # {}

\* C8 (as claimed): a finished request whose front-side OCR or answering failed has
\* still attempted the back side's OCR.
C8_FrontFailureStillAttemptsBack ==
    \A s \in Sessions :
        (Run(s).pc = "done" /\ FrontFailed(Run(s)))
        => CallsOf(Run(s), "process_card_side", "back") # {}

\* C8 (amended): an exception of front-side OCR or answering ends the request with
\* the 'Error during processing' message and the back side is never processed; a
\* front answer that was returned, JSON or not, is followed by the back side's OCR
\* before the request finishes.
C8_FrontFailureAbortsRequest ==
    \A s \in Sessions :
        LET r == Run(s)
        IN  /\ FrontFailed(r)
               => /\ r.pc = "done"
                  /\ \A op \in PipelineOps : CallsOf(r, op, "back") = {}
                  /\ Len(r.page) = 1 /\ r.page[1].type = "error" /\ r.page[1].label = ErrDuring
                  /\ r.escaped = NoExc
            /\ (r.pc = "done" /\ r.front_result.set)
               => CallsOf(r, "process_card_side", "back") # {}

C8_Witness ==
    \E s \in Sessions :
        /\ FailedCallsOf(Run(s), "chain_run", "front") # {}
        /\ Run(s).pc = "done"
        /\ Len(Run(s).page) = 1

\* ---- C9
\* C9 (as claimed): whenever a warning or an error is on the page, no field of either
\* side is on it.
C9_BothOrNothing ==
    \A s \in Sessions :
        Messages(Run(s)) # << >> => AllFields(Run(s)) = << >>

\* ---- C10
\* C10 (as claimed): the text OCR returns to a request for a side is the text of the
\* image this request uploaded for that side.
C10_OcrReadsOwnImage ==
    \A s \in Sessions : \A side \in Sides :
        \A i \in OkCallsOf(Run(s), "process_card_side", side) :
            Run(s).calls[i].arg = Image(s, side)
====
